---- MODULE Spec2Model ----
(***************************************************************************)
(* Model of route_codegen: the generate_configure procedural macro that     *)
(* scans a crate for actix-web handlers, resolves their module paths,       *)
(* groups them and emits the registration code, plus the generated          *)
(* configure() entry point with its one-shot route log.                     *)
(*                                                                          *)
(* Text is modelled as a sequence of tokens.  A token is either a separator *)
(* ("::", "/", "_", "r#", "!", ".", "*", "**") or a run of identifier       *)
(* letters that contains no separator ("handler", "agency", "type", ...).   *)
(* Joining, splitting and formatting work on these sequences, so            *)
(* "a_b" = <<"a","_","b">> and the join of <<"a">>, <<"b">> by "_" are the  *)
(* same text, as they are for the program.                                  *)
(***************************************************************************)
EXTENDS Integers, Sequences, FiniteSets, TLC

VARIABLES
    INITIALIZED,   \* static INITIALIZED: AtomicBool of the generated configure()
    nCallers,      \* number of workers that call configure()
    pc,            \* pc[c]: position of caller c inside configure()
    observed,      \* observed[c]: what caller c's compare_exchange returned
    logIdx,        \* logIdx[c]: next route log statement of caller c
    logged,        \* the log::info! lines emitted so far (indices into all_routes)
    mounted,       \* mounted[c]: mount units caller c has invoked
    all_routes,    \* the (method, path) list compiled into configure()
    all_configure_calls, \* the mount-unit identifiers compiled into configure()
    exFile,        \* the source file handed to process_file
    exBase,        \* its base_module_path argument
    exDone,        \* process_file has returned
    exOut,         \* what process_file returned and left in its result vector
    functions,     \* the flat Vec<RouteFunction> handed to the grouper
    genPc,         \* position of generate_configure after the scan
    grouped,       \* HashMap<Vec<String>, Vec<RouteFunction>>
    pending,       \* keys of grouped the emission loop has not visited yet
    gen_configure_fns,   \* all_configure_fns of the emission loop
    gen_configure_calls, \* all_configure_calls of the emission loop
    gen_routes,    \* all_routes of the emission loop
    expanded,      \* the generated text the macro returns
    run,           \* 1: first generation run, 2: the run repeated on the same input
    firstExpanded, \* the text the first run returned
    patterns,      \* args.patterns: the string literals given to the macro
    entry,         \* a directory entry met by scan_directory_files_with_rules
    scan_rules,    \* the ScanRules built from patterns
    rulesPc,       \* position of the rule builder and matcher
    included,      \* what scan_rules.should_include returned for the entry
    skipped,       \* what should_skip_file returned for the entry
    input_empty,   \* input.is_empty(): the macro is invoked without patterns
    manifest_dir_set, \* CARGO_MANIFEST_DIR is set
    tree,          \* the .rs files of the workspace, in the order read_dir lists them
    scanPc,        \* position of generate_configure in the scan
    processed,     \* processed[i]: process_file has run on tree[i], and its outcome
    files,         \* Vec<PathBuf> of scan_crate_for_route_files_with_rules (indices of tree)
    fileIdx,       \* position of `for file in files`
    scan_result,   \* the Vec<RouteFunction> the scan has collected
    stderr         \* the eprintln! lines written so far

cfgVars == <<INITIALIZED, nCallers, pc, observed, logIdx, logged, mounted,
             all_routes, all_configure_calls>>

exVars == <<exFile, exBase, exDone, exOut>>

genVars == <<functions, genPc, grouped, pending, gen_configure_fns,
             gen_configure_calls, gen_routes, expanded, run, firstExpanded>>

ruleVars == <<patterns, entry, scan_rules, rulesPc, included, skipped>>

scanVars == <<input_empty, manifest_dir_set, tree, scanPc, processed, files,
              fileIdx, scan_result, stderr>>

vars == <<cfgVars, exVars, genVars, ruleVars, scanVars>>

\* what the steps of one component leave alone
nonCfgVars == <<exVars, genVars, ruleVars, scanVars>>
nonExVars == <<cfgVars, genVars, ruleVars, scanVars>>
nonGenVars == <<cfgVars, exVars, ruleVars, scanVars>>
nonRuleVars == <<cfgVars, exVars, genVars, scanVars>>

(***************************************************************************)
(* Bounds                                                                  *)
(***************************************************************************)
MaxCallers == 5
MaxRoutes == 2
MaxAttrs == 2
MaxFns == 3
MaxPatterns == 2

(***************************************************************************)
(* Generic helpers on sequences                                            *)
(***************************************************************************)
Range(s) == {s[i] : i \in DOMAIN s}

Count(s, x) == Cardinality({i \in DOMAIN s : s[i] = x})

(***************************************************************************)
(* Text                                                                    *)
(***************************************************************************)
\* [String]::join(sep)
RECURSIVE Join(_, _)
Join(segs, sep) ==
    IF segs = <<>> THEN <<>>
    ELSE IF Len(segs) = 1 THEN segs[1]
    ELSE segs[1] \o sep \o Join(Tail(segs), sep)

\* str::split(sep) for a one-token separator: n separators give n+1 pieces
RECURSIVE SplitFrom(_, _, _)
SplitFrom(str, sep, piece) ==
    IF str = <<>> THEN <<piece>>
    ELSE IF Head(str) = sep THEN <<piece>> \o SplitFrom(Tail(str), sep, <<>>)
    ELSE SplitFrom(Tail(str), sep, Append(piece, Head(str)))

Split(str, sep) == SplitFrom(str, sep, <<>>)

\* Iterator::filter(|s| !s.is_empty())
NonEmpty(pieces) == SelectSeq(pieces, LAMBDA p : p # <<>>)

\* str::to_lowercase on an identifier token
to_lowercase(tok) ==
    CASE tok = "GET" -> "get"
      [] tok = "POST" -> "post"
      [] OTHER -> tok

\* str::to_uppercase on a method name of METHOD_MAP
to_uppercase(tok) ==
    CASE tok = "get" -> "GET"
      [] tok = "post" -> "POST"
      [] tok = "put" -> "PUT"
      [] tok = "delete" -> "DELETE"
      [] tok = "head" -> "HEAD"
      [] tok = "connect" -> "CONNECT"
      [] tok = "options" -> "OPTIONS"
      [] tok = "trace" -> "TRACE"
      [] tok = "patch" -> "PATCH"
      [] OTHER -> tok

\* Vec::pop: nothing happens on an empty vector
Pop(s) == IF s = <<>> THEN s ELSE SubSeq(s, 1, Len(s) - 1)

(***************************************************************************)
(* Route attributes                                                        *)
(*   attr = [path |-> sequence of identifier tokens,                       *)
(*           lit  |-> TRUE iff the arguments are exactly one string literal,*)
(*           value |-> that literal]                                       *)
(***************************************************************************)
METHOD_MAP == << <<"get", "get">>, <<"post", "post">>, <<"put", "put">>,
                 <<"delete", "delete">>, <<"head", "head">>,
                 <<"connect", "connect">>, <<"options", "options">>,
                 <<"trace", "trace">>, <<"patch", "patch">> >>

\* an empty RouteFunction slot, for Option::None
NoRoute == [some |-> FALSE, name |-> <<>>, method |-> "", route_path |-> <<>>,
            module_prefix |-> <<>>]

RouteFunction(name, method, route_path, module_prefix) ==
    [some |-> TRUE, name |-> name, method |-> method, route_path |-> route_path,
     module_prefix |-> module_prefix]

\* syn::Path::is_ident
is_ident(path, k) == Len(path) = 1 /\ path[1] = k

is_route_attribute(attr) ==
    \E i \in DOMAIN METHOD_MAP :
        LET k == METHOD_MAP[i][1] IN
            \/ is_ident(attr.path, k)
            \/ /\ Len(attr.path) = 2
               /\ attr.path[1] = "actix_web"
               /\ attr.path[2] = k

\* Option<String>: [some, key]
get_attr_key(attr) ==
    IF Len(attr.path) = 1 THEN [some |-> TRUE, key |-> to_lowercase(attr.path[1])]
    ELSE [some |-> FALSE, key |-> ""]

\* Option<(String, String)>: [some, method, path]
parse_route_attribute(attr) ==
    LET key == get_attr_key(attr)
        hits == {i \in DOMAIN METHOD_MAP : METHOD_MAP[i][1] = key.key}
    IN  IF ~key.some \/ hits = {} THEN [some |-> FALSE, method |-> "", path |-> <<>>]
        ELSE LET first == CHOOSE i \in hits : \A j \in hits : i <= j IN
             IF attr.lit
             THEN [some |-> TRUE, method |-> METHOD_MAP[first][2], path |-> attr.value]
             ELSE [some |-> FALSE, method |-> "", path |-> <<>>]

\* the attribute loop of extract_route_info: later successes overwrite earlier
RECURSIVE ScanAttrs(_, _)
ScanAttrs(attrs, found) ==
    IF attrs = <<>> THEN found
    ELSE LET attr == Head(attrs)
             parsed == IF is_route_attribute(attr) THEN parse_route_attribute(attr)
                       ELSE [some |-> FALSE, method |-> "", path |-> <<>>]
         IN  ScanAttrs(Tail(attrs), IF parsed.some THEN parsed ELSE found)

extract_route_info(fn_item) ==
    LET found == ScanAttrs(fn_item.attrs, [some |-> FALSE, method |-> "", path |-> <<>>])
    IN  IF found.some
        THEN RouteFunction(fn_item.name, found.method, found.path, <<>>)
        ELSE NoRoute

(***************************************************************************)
(* Module paths                                                            *)
(*   a source path is [dirs |-> directory names from the manifest          *)
(*   directory down to the file, stem |-> file stem, ext |-> extension]    *)
(***************************************************************************)
\* "crate" and "mod" are dropped, the rest joined by "::"
build_module_prefix(current_module) ==
    Join(SelectSeq(current_module, LAMBDA s : s # <<"crate">> /\ s # <<"mod">>),
         <<"::">>)

\* index of the nearest ancestor directory named "src" (0: none)
find_src_directory(path) ==
    LET hits == {i \in DOMAIN path.dirs : path.dirs[i] = <<"src">>}
    IN  IF hits = {} THEN 0 ELSE CHOOSE i \in hits : \A j \in hits : j <= i

build_current_module(base_module_path, path) ==
    LET src_root == find_src_directory(path)
        relative == SubSeq(path.dirs, src_root + 1, Len(path.dirs))
        base == NonEmpty(Split(base_module_path, "::"))
        dirs == SelectSeq(relative, LAMBDA d : d # <<"main">>)
        stem == IF path.stem # <<"main">> /\ path.stem # <<"lib">>
                THEN <<path.stem>> ELSE <<>>
    IN  base \o dirs \o stem

\* st = [result |-> Vec<RouteFunction>, current_module |-> Vec<String>]
handle_function(fn_item, st) ==
    LET route_fn == extract_route_info(fn_item) IN
        IF ~route_fn.some THEN st
        ELSE [st EXCEPT !.result = Append(@,
                 [route_fn EXCEPT !.module_prefix =
                      build_module_prefix(st.current_module)])]

RECURSIVE WalkItems(_, _, _)
RECURSIVE handle_module(_, _, _)
\* the file name pushed for a module named like the file is left on the stack
handle_module_single_pop(module, st, path) ==
    LET module_name == module.name
        doubled == path.stem = module_name
        pushed_stem == IF doubled THEN Append(st.current_module, path.stem)
                       ELSE st.current_module
        entered == [st EXCEPT !.current_module = Append(pushed_stem, module_name)]
        inner == IF module.inline THEN WalkItems(module.items, entered, path)
                 ELSE entered
    IN  [inner EXCEPT !.current_module = Pop(inner.current_module)]

handle_module(module, st, path) ==
    LET module_name == module.name
        doubled == path.stem = module_name
        pushed_stem == IF doubled THEN Append(st.current_module, path.stem)
                       ELSE st.current_module
        pushed == Append(pushed_stem, module_name)
        entered == [st EXCEPT !.current_module = pushed]
        inner == IF module.inline THEN WalkItems(module.items, entered, path)
                 ELSE entered
        popped == Pop(inner.current_module)
    IN  [inner EXCEPT !.current_module = IF doubled THEN Pop(popped) ELSE popped]

process_item_with_module(item, st, path) ==
    CASE item.kind = "fn" -> handle_function(item, st)
      [] item.kind = "mod" -> handle_module(item, st, path)
      [] OTHER -> st

WalkItems(items, st, path) ==
    IF items = <<>> THEN st
    ELSE WalkItems(Tail(items), process_item_with_module(Head(items), st, path), path)

\* const MAX_FILE_SIZE: u64 = 10 * 1024 * 1024
MAX_FILE_SIZE == 10 * 1024 * 1024

\* a file of exactly the ceiling is rejected too
exceeds_limit_at_ceiling(len) == len >= MAX_FILE_SIZE

\* metadata.len() > MAX_FILE_SIZE
exceeds_limit(len) == len > MAX_FILE_SIZE

\* file = [path, size, readable, syntax_ok, items]; the Result and what was
\* pushed: [ok, err, result, read, parsed, current_module]
process_file(file, base_module_path) ==
    IF exceeds_limit(file.size)
    THEN [ok |-> FALSE, err |-> "File size exceeds limit", result |-> <<>>,
          read |-> FALSE, parsed |-> FALSE, current_module |-> <<>>]
    ELSE IF ~file.readable
    THEN [ok |-> FALSE, err |-> "Failed to read file", result |-> <<>>,
          read |-> FALSE, parsed |-> FALSE, current_module |-> <<>>]
    ELSE LET current_module == build_current_module(base_module_path, file.path) IN
         IF ~file.syntax_ok
         THEN [ok |-> FALSE, err |-> "Failed to parse file content", result |-> <<>>,
               read |-> TRUE, parsed |-> FALSE, current_module |-> current_module]
         ELSE LET st == WalkItems(file.items,
                                  [result |-> <<>>, current_module |-> current_module],
                                  file.path)
              IN  [ok |-> TRUE, err |-> "", result |-> st.result, read |-> TRUE,
                   parsed |-> TRUE, current_module |-> st.current_module]

\* the state before process_file is called
NotProcessed == [ok |-> FALSE, err |-> "", result |-> <<>>, read |-> FALSE,
                 parsed |-> FALSE, current_module |-> <<>>]

(***************************************************************************)
(* Source files the extractor is run on                                    *)
(***************************************************************************)
FnItem(name, attrs) ==
    [kind |-> "fn", name |-> name, attrs |-> attrs, inline |-> FALSE, items |-> <<>>]

ModItem(name, inline, items) ==
    [kind |-> "mod", name |-> name, attrs |-> <<>>, inline |-> inline, items |-> items]

UseItem == [kind |-> "use", name |-> <<>>, attrs |-> <<>>, inline |-> FALSE,
            items |-> <<>>]

SourcePath(dirs, stem) == [dirs |-> dirs, stem |-> stem, ext |-> "rs"]

SourceFile(path, size, readable, syntax_ok, items) ==
    [path |-> path, size |-> size, readable |-> readable, syntax_ok |-> syntax_ok,
     items |-> items]

Methods == {METHOD_MAP[i][1] : i \in DOMAIN METHOD_MAP}

\* attribute paths: the nine bare markers, the nine qualified ones, and
\* attributes that are no route marker
MarkerPaths ==
    {<<m>> : m \in Methods} \cup {<<"actix_web", m>> : m \in Methods}
        \cup {<<"route">>, <<"other", "get">>, <<"GET">>}

Literals == {<<"/", "x">>, <<"/", "y">>}

Attrs ==
    {[path |-> p, lit |-> TRUE, value |-> v] : p \in MarkerPaths, v \in Literals}
        \cup {[path |-> p, lit |-> FALSE, value |-> <<>>] : p \in MarkerPaths}

AttrLists == UNION {[1..k -> Attrs] : k \in 0..MaxAttrs}

GetX == <<[path |-> <<"get">>, lit |-> TRUE, value |-> <<"/", "x">>]>>

AgencyRs == SourcePath(<<<<"src">>, <<"handler">>>>, <<"agency">>)
NationRs == SourcePath(<<<<"src">>, <<"handler">>>>, <<"nation">>)
HandlerModRs == SourcePath(<<<<"src">>, <<"handler">>>>, <<"mod">>)
OemRs == SourcePath(<<<<"src">>, <<"handler">>, <<"submodules">>>>, <<"oem">>)
MainRs == SourcePath(<<<<"src">>>>, <<"main">>)
LibRs == SourcePath(<<<<"src">>>>, <<"lib">>)
ToolRs == SourcePath(<<<<"api", "_", "tool">>, <<"src">>, <<"api", "_", "tool">>>>, <<"tool">>)

ExtractPaths == {AgencyRs, NationRs, HandlerModRs, OemRs, MainRs, LibRs, ToolRs}

ModuleNames == {<<"agency">>, <<"agency", "_", "api">>, <<"nation">>}

\* item lists with nested modules: g and k are declared inside modules, f and
\* h after one
ModuleShapes ==
    {<<FnItem(<<"f">>, GetX)>>}
        \cup {<<UseItem, ModItem(m, TRUE, <<FnItem(<<"g">>, GetX)>>)>> :
                 m \in ModuleNames}
        \cup {<<ModItem(m, TRUE, <<FnItem(<<"g">>, GetX)>>), FnItem(<<"f">>, GetX)>> :
                 m \in ModuleNames}
        \cup {<<ModItem(m, FALSE, <<>>), FnItem(<<"f">>, GetX)>> : m \in ModuleNames}
        \cup {<<ModItem(m, TRUE,
                    <<ModItem(n, TRUE, <<FnItem(<<"k">>, GetX)>>),
                      FnItem(<<"h">>, GetX)>>),
                 FnItem(<<"f">>, GetX)>> : m \in ModuleNames, n \in ModuleNames}

FileSizes == {0, MAX_FILE_SIZE - 1, MAX_FILE_SIZE, MAX_FILE_SIZE + 1,
              11 * 1024 * 1024}

\* one function under every attribute list; module trees in every file;
\* one file under every size, readability and syntax
ExtractFiles ==
    {SourceFile(NationRs, 0, TRUE, TRUE, <<FnItem(<<"hello">>, a)>>) : a \in AttrLists}
        \cup {SourceFile(p, 0, TRUE, TRUE, s) : p \in ExtractPaths, s \in ModuleShapes}
        \cup {SourceFile(NationRs, z, r, ok, <<FnItem(<<"hello">>, GetX)>>) :
                 z \in FileSizes, r \in BOOLEAN, ok \in BOOLEAN}

(***************************************************************************)
(* Scan rules (globset patterns)                                           *)
(*   a pattern and a path are texts; "*" and "**" are tokens of a pattern  *)
(***************************************************************************)
GlobToken(t, c) == [t |-> t, c |-> c]

\* globset's parser: a "**" that is a whole path component becomes a
\* recursive token and swallows the separators next to it, any other star
\* is ZeroOrMore
RECURSIVE GlobParse(_, _, _)
GlobParse(pat, i, toks) ==
    IF i > Len(pat) THEN toks
    ELSE LET c == pat[i]
             hasPrev == i > 1
             hasNext == i < Len(pat)
             two == toks \o <<GlobToken("ZeroOrMore", ""), GlobToken("ZeroOrMore", "")>>
         IN
         IF c = "*" THEN GlobParse(pat, i + 1, Append(toks, GlobToken("ZeroOrMore", "")))
         ELSE IF c # "**" THEN GlobParse(pat, i + 1, Append(toks, GlobToken("Literal", c)))
         ELSE IF toks = <<>>
              THEN IF hasNext /\ pat[i + 1] # "/"
                   THEN GlobParse(pat, i + 1, two)
                   ELSE GlobParse(pat, i + 2, <<GlobToken("RecursivePrefix", "")>>)
         ELSE IF ~(hasPrev /\ pat[i - 1] = "/") THEN GlobParse(pat, i + 1, two)
         ELSE IF hasNext /\ pat[i + 1] # "/" THEN GlobParse(pat, i + 1, two)
         ELSE LET last == toks[Len(toks)]
                  kept == Pop(toks)
                  tok == IF last.t \in {"RecursivePrefix", "RecursiveSuffix"} THEN last
                         ELSE IF hasNext THEN GlobToken("RecursiveZeroOrMore", "")
                         ELSE GlobToken("RecursiveSuffix", "")
              IN  GlobParse(pat, i + 2, Append(kept, tok))

\* Glob::new(pattern)
Glob(pattern) == GlobParse(pattern, 1, <<>>)

\* the text after its first n tokens
Drop(s, n) == SubSeq(s, n + 1, Len(s))

\* the anchored regex of a glob, with the default options ('*' crosses '/'):
\*   ZeroOrMore .*   RecursivePrefix (?:/?|.*/)   RecursiveSuffix /.*
\*   RecursiveZeroOrMore (?:/|/.*/)
RECURSIVE GlobMatches(_, _)
GlobMatches(glob, s) ==
    IF glob = <<>> THEN s = <<>>
    ELSE LET g == Head(glob)
             rest == Tail(glob)
         IN  CASE g.t = "Literal" ->
                    s # <<>> /\ s[1] = g.c /\ GlobMatches(rest, Tail(s))
               [] g.t = "ZeroOrMore" ->
                    \E k \in 0..Len(s) : GlobMatches(rest, Drop(s, k))
               [] g.t = "RecursivePrefix" ->
                    \/ GlobMatches(rest, s)
                    \/ \E k \in 1..Len(s) : s[k] = "/" /\ GlobMatches(rest, Drop(s, k))
               [] g.t = "RecursiveSuffix" ->
                    /\ s # <<>> /\ s[1] = "/"
                    /\ \E k \in 1..Len(s) : GlobMatches(rest, Drop(s, k))
               [] g.t = "RecursiveZeroOrMore" ->
                    /\ s # <<>> /\ s[1] = "/"
                    /\ \E k \in 1..Len(s) : s[k] = "/" /\ GlobMatches(rest, Drop(s, k))

\* pattern.starts_with('!')
starts_with_bang(pattern) == pattern # <<>> /\ pattern[1] = "!"

split_include_exclude(pats) ==
    [include |-> SelectSeq(pats, LAMBDA p : ~starts_with_bang(p)),
     exclude |-> [i \in DOMAIN SelectSeq(pats, starts_with_bang) |->
                     Tail(SelectSeq(pats, starts_with_bang)[i])]]

\* GlobSetBuilder: one compiled glob per pattern
build_glob_set(pats) == [i \in DOMAIN pats |-> Glob(pats[i])]

\* GlobSet::is_match
is_match(set, path) == \E i \in DOMAIN set : GlobMatches(set[i], path)

default_exclude_patterns == <<<<"!", "route", "_", "codegen", "/", "src", "/", "**">>>>

build_scan_rules(pats) ==
    LET all_patterns == pats \o default_exclude_patterns
        split == split_include_exclude(all_patterns)
    IN  [include |-> build_glob_set(split.include),
         exclude |-> build_glob_set(split.exclude),
         include_patterns |-> split.include,
         exclude_patterns |-> split.exclude]

\* a file is included when no exclude pattern matches, whatever the includes
should_include_excludes_only(rules, path) == ~is_match(rules.exclude, path)

\* ScanRules::should_include
should_include(rules, path) ==
    is_match(rules.include, path) /\ ~is_match(rules.exclude, path)

\* a directory entry: [dirs |-> directory names from the manifest directory,
\*                     stem, ext, is_file]
file_name(ent) == IF ent.ext = "" THEN ent.stem ELSE ent.stem \o <<".", ent.ext>>

\* file_path.strip_prefix(manifest_dir), normalised to '/' separators
rel_path(ent) == Join(Append(ent.dirs, file_name(ent)), <<"/">>)

\* should_skip_file(file_path, manifest_dir, rules)
should_skip_file(ent, rules) ==
    IF ~ent.is_file THEN FALSE
    ELSE IF ent.ext # "rs" THEN TRUE
    ELSE IF file_name(ent) = <<"main", ".", "rs">> THEN TRUE
    ELSE ~should_include(rules, rel_path(ent))

(***************************************************************************)
(* Grouping and emission (configure_builder.rs)                            *)
(***************************************************************************)
\* tools::is_rust_keyword: the reserved words of the Rust language
RustKeywords == {<<"type">>, <<"fn">>, <<"mod">>, <<"match">>, <<"crate">>,
                 <<"self">>, <<"super">>, <<"async">>, <<"move">>, <<"use">>}

is_rust_keyword(s) == s \in RustKeywords

\* the tokens that cannot occur in an identifier
NonIdentTokens == {"::", "/", "r#", "!", ".", "*", "**", "{", "}"}

\* proc_macro2::Ident::new(text, span) accepts a legal identifier or keyword
\* and panics on anything else: the empty string, or text holding '#', ':' ...
\* (a raw identifier is built by Ident::new_raw, not by Ident::new)
IdentNewAccepts(text) ==
    /\ text # <<>>
    /\ \A i \in DOMAIN text : text[i] \notin NonIdentTokens

\* a key that ignores the order of the segments
module_segments_unordered(func) ==
    LET segs == NonEmpty(Split(func.module_prefix, "::")) IN
        CHOOSE q \in {[i \in DOMAIN segs |-> segs[p[i]]] :
                         p \in Permutations(DOMAIN segs)} : TRUE

\* the key of the HashMap entry a function goes to
module_segments(func) == NonEmpty(Split(func.module_prefix, "::"))

\* grouped.entry(module_segments).or_insert_with(Vec::new).push(func.clone())
GroupInsert(map, func) ==
    LET k == module_segments(func) IN
        IF k \in DOMAIN map THEN [map EXCEPT ![k] = Append(@, func)]
        ELSE map @@ (k :> <<func>>)

RECURSIVE GroupFold(_, _)
GroupFold(funcs, map) ==
    IF funcs = <<>> THEN map
    ELSE GroupFold(Tail(funcs), GroupInsert(map, Head(funcs)))

\* the empty HashMap
EmptyMap == [k \in {} |-> <<>>]

group_functions_by_module(funcs) == GroupFold(funcs, EmptyMap)

safe_mod_name(module_path) == Join(module_path, <<"_">>)

configure_ident(module_path) == <<"configure", "_">> \o safe_mod_name(module_path)

register_ident(module_path) == <<"register", "_">> \o safe_mod_name(module_path)

mod_scope(module_path) ==
    LET scope_name == Join(module_path, <<"/">>) IN
        IF scope_name = <<>> THEN <<"/">> ELSE <<"/">> \o scope_name

\* the text handed to Ident::new for one segment of the handler path
segment_ident(s) == IF is_rust_keyword(s) THEN <<"r#">> \o s ELSE s

\* cfg.service(#segments::#ident);
service_statement(f) ==
    LET segs == Split(f.module_prefix, "::") IN
        [segments |-> [i \in DOMAIN segs |-> segment_ident(segs[i])],
         ident |-> f.name]

\* every Ident::new call of generate_module_configure gets a legal identifier
IdentsAccepted(module_path, funcs) ==
    /\ IdentNewAccepts(configure_ident(module_path))
    /\ IdentNewAccepts(register_ident(module_path))
    /\ \A i \in DOMAIN funcs :
          LET st == service_statement(funcs[i]) IN
              /\ IdentNewAccepts(st.ident)
              /\ \A j \in DOMAIN st.segments : IdentNewAccepts(st.segments[j])

\* (configure_fn, register_fn, vec![configure_ident], routes), or a panic
generate_module_configure(module_path, funcs) ==
    [panicked |-> ~IdentsAccepted(module_path, funcs),
     register_fn |->
        [kind |-> "register", ident |-> register_ident(module_path),
         services |-> [i \in DOMAIN funcs |-> service_statement(funcs[i])],
         scope |-> <<>>, register |-> <<>>],
     configure_fn |->
        [kind |-> "configure", ident |-> configure_ident(module_path),
         services |-> <<>>, scope |-> mod_scope(module_path),
         register |-> register_ident(module_path)],
     calls |-> <<configure_ident(module_path)>>,
     routes |-> [i \in DOMAIN funcs |->
                    <<to_uppercase(funcs[i].method),
                      mod_scope(module_path) \o funcs[i].route_path>>]]

\* the generated text: the units, then configure() with its log statements
\* and its mount-unit calls
build_configure_function(fns, calls, routes) ==
    [units |-> fns, route_logs |-> routes, configure_calls |-> calls]

NoText == [units |-> <<>>, route_logs |-> <<>>, configure_calls |-> <<>>]

(***************************************************************************)
(* Declarations the grouper is run on                                      *)
(***************************************************************************)
\* module stacks as process_file leaves them for handle_function
HandlerStacks ==
    {<<<<"crate">>, <<"handler">>, <<"agency">>>>,
     <<<<"crate">>, <<"handler">>, <<"nation">>>>}

OtherStacks ==
    {<<<<"crate">>>>,
     <<<<"crate">>, <<"agency">>, <<"handler">>>>,
     <<<<"crate">>, <<"type">>>>,
     <<<<"crate">>, <<"a", "_", "b">>>>,
     <<<<"crate">>, <<"a">>, <<"b">>>>}

ModuleStacks == HandlerStacks \cup OtherStacks

HelloFn == FnItem(<<"hello">>, GetX)

EchoFn == FnItem(<<"echo">>,
                 <<[path |-> <<"post">>, lit |-> TRUE, value |-> <<"/", "y">>]>>)

\* what handle_function pushes for handler f under module stack m
Declared(f, m) == handle_function(f, [result |-> <<>>, current_module |-> m]).result[1]

Declarations ==
    {Declared(f, m) : f \in {HelloFn, EchoFn}, m \in HandlerStacks}
        \cup {Declared(HelloFn, m) : m \in OtherStacks}

DeclarationLists == UNION {[1..k -> Declarations] : k \in 0..MaxFns}

(***************************************************************************)
(* Each component before it is started                                     *)
(***************************************************************************)
ConfigureIdle ==
    /\ INITIALIZED = FALSE
    /\ nCallers = 0
    /\ pc = <<>>
    /\ observed = <<>>
    /\ logIdx = <<>>
    /\ logged = <<>>
    /\ mounted = <<>>
    /\ all_routes = <<>>
    /\ all_configure_calls = <<>>

ExtractIdle ==
    /\ exFile = SourceFile(NationRs, 0, TRUE, TRUE, <<>>)
    /\ exBase = <<"crate">>
    /\ exDone = FALSE
    /\ exOut = NotProcessed

GenerateIdle ==
    /\ functions = <<>>
    /\ genPc = "idle"
    /\ grouped = EmptyMap
    /\ pending = {}
    /\ gen_configure_fns = <<>>
    /\ gen_configure_calls = <<>>
    /\ gen_routes = <<>>
    /\ expanded = NoText
    /\ run = 1
    /\ firstExpanded = NoText

NoRules == [include |-> <<>>, exclude |-> <<>>,
            include_patterns |-> <<>>, exclude_patterns |-> <<>>]

RulesIdle ==
    /\ patterns = <<>>
    /\ entry = [dirs |-> <<>>, stem |-> <<>>, ext |-> "", is_file |-> FALSE]
    /\ scan_rules = NoRules
    /\ rulesPc = "idle"
    /\ included = FALSE
    /\ skipped = FALSE

ScanIdle ==
    /\ input_empty = TRUE
    /\ manifest_dir_set = TRUE
    /\ tree = <<>>
    /\ scanPc = "idle"
    /\ processed = <<>>
    /\ files = <<>>
    /\ fileIdx = 1
    /\ scan_result = <<>>
    /\ stderr = <<>>

(***************************************************************************)
(* Running the extractor on one file                                       *)
(***************************************************************************)
InitExtract ==
    /\ exFile \in ExtractFiles
    /\ exBase \in {<<"crate">>, <<"api", "_", "tool">>}
    /\ exDone = FALSE
    /\ exOut = NotProcessed
    /\ ConfigureIdle
    /\ GenerateIdle
    /\ RulesIdle
    /\ ScanIdle

\* process_file(&file, &base_module, &mut result)
ProcessFile ==
    /\ ~exDone
    /\ exOut' = process_file(exFile, exBase)
    /\ exDone' = TRUE
    /\ UNCHANGED <<exFile, exBase, nonExVars>>

NextExtract == ProcessFile

SpecExtract == InitExtract /\ [][NextExtract]_vars

(***************************************************************************)
(* Building the scan rules and matching one directory entry                *)
(***************************************************************************)
\* the patterns the macro is given
PatternTexts ==
    { <<"src", "/", "**", "/", "*", ".", "rs">>,
      <<"!", "src", "/", "generated", "/", "**">>,
      <<"**", "/", "src", "/", "**", "/", "*", ".", "rs">>,
      <<"*", ".", "rs">>,
      <<"src", "/", "handler", "/", "*">>,
      <<"!", "**", "/", "x", ".", "rs">>,
      <<"!", "src", "/", "**">> }

RECURSIVE PatternListsOfLen(_)
PatternListsOfLen(n) ==
    IF n = 0 THEN {<<>>}
    ELSE {Append(l, p) : l \in PatternListsOfLen(n - 1), p \in PatternTexts}

\* the macro input is not empty when the rules are built
PatternLists == UNION {PatternListsOfLen(n) : n \in 1..MaxPatterns}

Entry(dirs, stem, ext, is_file) ==
    [dirs |-> dirs, stem |-> stem, ext |-> ext, is_file |-> is_file]

\* the entries of the scanned tree
Entries ==
    { Entry(<<<<"src">>, <<"handler">>>>, <<"nation">>, "rs", TRUE),
      Entry(<<<<"src">>, <<"generated">>>>, <<"x">>, "rs", TRUE),
      Entry(<<<<"src">>>>, <<"main">>, "rs", TRUE),
      Entry(<<<<"src">>>>, <<"lib">>, "rs", TRUE),
      Entry(<<<<"src">>, <<"handler">>>>, <<"notes">>, "txt", TRUE),
      Entry(<<<<"src">>>>, <<"generated">>, "", FALSE),
      Entry(<<<<"api", "_", "tool">>, <<"src">>, <<"api", "_", "tool">>>>,
            <<"tool">>, "rs", TRUE),
      Entry(<<<<"route", "_", "codegen">>, <<"src">>>>, <<"lib">>, "rs", TRUE) }

InitRules ==
    /\ patterns \in PatternLists
    /\ entry \in Entries
    /\ scan_rules = NoRules
    /\ rulesPc = "build"
    /\ included = FALSE
    /\ skipped = FALSE
    /\ ConfigureIdle
    /\ ExtractIdle
    /\ GenerateIdle
    /\ ScanIdle

\* let scan_rules = build_scan_rules(&args.patterns)
BuildScanRules ==
    /\ rulesPc = "build"
    /\ scan_rules' = build_scan_rules(patterns)
    /\ rulesPc' = "scan"
    /\ UNCHANGED <<patterns, entry, included, skipped>>

\* should_skip_file(&entry_path, manifest_dir, rules) for the entry
ShouldSkipFile ==
    /\ rulesPc = "scan"
    /\ included' = should_include(scan_rules, rel_path(entry))
    /\ skipped' = should_skip_file(entry, scan_rules)
    /\ rulesPc' = "done"
    /\ UNCHANGED <<patterns, entry, scan_rules>>

NextRules ==
    /\ \/ BuildScanRules
       \/ ShouldSkipFile
    /\ UNCHANGED nonRuleVars

SpecRules == InitRules /\ [][NextRules]_vars

(***************************************************************************)
(* generate_configure after the scan: group, emit, build                   *)
(***************************************************************************)
InitGroup ==
    /\ functions \in DeclarationLists
    /\ genPc = "group"
    /\ grouped = EmptyMap
    /\ pending = {}
    /\ gen_configure_fns = <<>>
    /\ gen_configure_calls = <<>>
    /\ gen_routes = <<>>
    /\ expanded = NoText
    /\ run = 1
    /\ firstExpanded = NoText
    /\ ConfigureIdle
    /\ ExtractIdle
    /\ RulesIdle
    /\ ScanIdle

\* let grouped = group_functions_by_module(&functions);
GroupFunctions ==
    /\ genPc = "group"
    /\ grouped' = group_functions_by_module(functions)
    /\ pending' = DOMAIN grouped'
    /\ genPc' = "emit"
    /\ UNCHANGED <<functions, gen_configure_fns, gen_configure_calls, gen_routes,
                   expanded, run, firstExpanded>>

\* one iteration of `for (module_path, functions) in grouped`: a HashMap
\* yields its entries in an order that differs from one process to the next
EmitModule(module_path) ==
    /\ genPc = "emit"
    /\ module_path \in pending
    /\ LET r == generate_module_configure(module_path, grouped[module_path]) IN
          IF r.panicked
          THEN /\ genPc' = "panicked"
               /\ UNCHANGED <<pending, gen_configure_fns, gen_configure_calls,
                              gen_routes>>
          ELSE /\ gen_configure_fns' =
                      gen_configure_fns \o <<r.register_fn, r.configure_fn>>
               /\ gen_configure_calls' = gen_configure_calls \o r.calls
               /\ gen_routes' = gen_routes \o r.routes
               /\ pending' = pending \ {module_path}
               /\ genPc' = "emit"
    /\ UNCHANGED <<functions, grouped, expanded, run, firstExpanded>>

\* build_configure_function(...) and TokenStream::from(expanded)
BuildConfigure ==
    /\ genPc = "emit"
    /\ pending = {}
    /\ expanded' = build_configure_function(gen_configure_fns, gen_configure_calls,
                                            gen_routes)
    /\ genPc' = "done"
    /\ UNCHANGED <<functions, grouped, pending, gen_configure_fns,
                   gen_configure_calls, gen_routes, run, firstExpanded>>

\* the build runs the macro again on the unchanged source tree
Rerun ==
    /\ genPc = "done"
    /\ run = 1
    /\ run' = 2
    /\ firstExpanded' = expanded
    /\ genPc' = "group"
    /\ grouped' = EmptyMap
    /\ pending' = {}
    /\ gen_configure_fns' = <<>>
    /\ gen_configure_calls' = <<>>
    /\ gen_routes' = <<>>
    /\ expanded' = NoText
    /\ UNCHANGED functions

NextGroup ==
    /\ \/ GroupFunctions
       \/ \E module_path \in pending : EmitModule(module_path)
       \/ BuildConfigure
    /\ UNCHANGED nonGenVars

SpecGroup == InitGroup /\ [][NextGroup]_vars

NextRegenerate ==
    /\ \/ GroupFunctions
       \/ \E module_path \in pending : EmitModule(module_path)
       \/ BuildConfigure
       \/ Rerun
    /\ UNCHANGED nonGenVars

\* two consecutive generation runs over the same declarations
SpecRegenerate == InitGroup /\ [][NextRegenerate]_vars

(***************************************************************************)
(* generate_configure from the scan on: a workspace of one root project    *)
(* (src/main.rs or src/lib.rs, src/handler/nation.rs,                      *)
(* src/handler/agency.rs), the member project api_tool (src/lib.rs) and,   *)
(* when the generator is a member too, route_codegen (src/lib.rs)          *)
(***************************************************************************)
ApiToolLibRs == SourcePath(<<<<"api", "_", "tool">>, <<"src">>>>, <<"lib">>)

HealthFn == FnItem(<<"health">>,
                   <<[path |-> <<"get">>, lit |-> TRUE, value |-> <<"/", "health">>]>>)

LibFn == FnItem(<<"lib">>,
                <<[path |-> <<"put">>, lit |-> TRUE, value |-> <<"/", "lib">>]>>)

\* the entry file of the root project, with or without a handler of its own
EntryFiles ==
    {SourceFile(p, 0, TRUE, ok, items) :
        p \in {MainRs, LibRs}, ok \in BOOLEAN, items \in {<<HealthFn>>, <<UseItem>>}}

NationFiles == {SourceFile(NationRs, 0, r, ok, <<HelloFn>>) : r \in BOOLEAN, ok \in BOOLEAN}

AgencyFiles == {SourceFile(AgencyRs, 0, TRUE, ok, <<EchoFn>>) : ok \in BOOLEAN}

MemberFiles == {SourceFile(ApiToolLibRs, 0, TRUE, ok, <<LibFn>>) : ok \in BOOLEAN}

RouteCodegenLibRs == SourcePath(<<<<"route", "_", "codegen">>, <<"src">>>>, <<"lib">>)

InternalFn == FnItem(<<"internal">>, GetX)

\* the source of the generator, holding a handler of its own
GeneratorFile == SourceFile(RouteCodegenLibRs, 0, TRUE, TRUE, <<InternalFn>>)

\* fs::read_dir lists the entries of src/ and of src/handler/ in any order;
\* the member projects are scanned after the root project, in the order of
\* workspace.members
Trees ==
    UNION {{root \o members :
               root \in {<<e, n, a>>, <<e, a, n>>, <<n, a, e>>, <<a, n, e>>},
               members \in {<<m>>, <<m, GeneratorFile>>}} :
              e \in EntryFiles, n \in NationFiles, a \in AgencyFiles, m \in MemberFiles}

\* the pattern lists the macro is invoked with
ScanPatternLists ==
    { <<<<"**", "/", "src", "/", "**", "/", "*", ".", "rs">>>>,
      <<<<"src", "/", "**", "/", "*", ".", "rs">>,
        <<"!", "src", "/", "handler", "/", "agency", ".", "rs">>>> }

\* the directory entry of a file of the tree
EntryOf(file) == [dirs |-> file.path.dirs, stem |-> file.path.stem,
                  ext |-> file.path.ext, is_file |-> TRUE]

\* the file is under manifest_dir/src
in_root_src(file) == file.path.dirs[1] = <<"src">>

\* find_main_or_lib: the file is src/main.rs or src/lib.rs of its project
is_entry_file(file) ==
    /\ file.path.stem \in {<<"main">>, <<"lib">>}
    /\ file.path.dirs[Len(file.path.dirs)] = <<"src">>
    /\ Len(file.path.dirs) <= 2

\* the package name in the Cargo.toml of the project that holds the file:
\* a member is named after its directory
get_crate_name_from_path(file) == file.path.dirs[1]

\* the crate_root scan_project is called with for the project of the file
crate_root(file) ==
    IF in_root_src(file) THEN <<"crate">> ELSE get_crate_name_from_path(file)

\* `let base_module = ...` of the loop over the matched files
base_module(file) ==
    IF in_root_src(file) THEN <<"crate">> ELSE get_crate_name_from_path(file)

\* scan_crate_for_route_files_with_rules: the files should_skip_file lets
\* through, in listing order (directories are never skipped)
RECURSIVE scan_files_from(_, _, _)
scan_files_from(t, rules, i) ==
    IF i > Len(t) THEN <<>>
    ELSE (IF should_skip_file(EntryOf(t[i]), rules) THEN <<>> ELSE <<i>>)
             \o scan_files_from(t, rules, i + 1)

scan_crate_for_route_files_with_rules(t, rules) == scan_files_from(t, rules, 1)

\* the eprintln! of process_file itself
ReadReport(file, out) ==
    IF out.err = "Failed to read file"
    THEN <<[path |-> file.path, msg |-> "Failed to read file"]>>
    ELSE <<>>

\* each sub-result replaces the collection instead of extending it
local_results_overwritten(done, i) ==
    LET oks == {j \in i..Len(done) : done[j].out.ok} IN
        IF oks = {} THEN <<>>
        ELSE done[CHOOSE j \in oks : \A k \in oks : k <= j].out.result

\* result.extend(local_results): the Some(sub_result) of the entries, in
\* entry order
RECURSIVE local_results(_, _)
local_results(done, i) ==
    IF i > Len(done) THEN <<>>
    ELSE (IF done[i].out.ok THEN done[i].out.result ELSE <<>>)
             \o local_results(done, i + 1)

InitScan ==
    /\ input_empty \in BOOLEAN
    /\ manifest_dir_set \in BOOLEAN
    /\ patterns \in (IF input_empty THEN {<<>>} ELSE ScanPatternLists)
    /\ tree \in Trees
    /\ scanPc = "start"
    /\ processed = [i \in DOMAIN tree |-> [state |-> "waiting", out |-> NotProcessed]]
    /\ files = <<>>
    /\ fileIdx = 1
    /\ scan_result = <<>>
    /\ stderr = <<>>
    /\ entry = [dirs |-> <<>>, stem |-> <<>>, ext |-> "", is_file |-> FALSE]
    /\ scan_rules = NoRules
    /\ rulesPc = "idle"
    /\ included = FALSE
    /\ skipped = FALSE
    /\ ConfigureIdle
    /\ ExtractIdle
    /\ GenerateIdle

\* generate_configure up to the first file: without CARGO_MANIFEST_DIR the
\* scan ends the run (a compile error, or the panic of expect); with
\* patterns the rules are built and the matching files listed
ScanStart ==
    /\ scanPc = "start"
    /\ scan_rules' = IF input_empty THEN scan_rules ELSE build_scan_rules(patterns)
    /\ IF ~manifest_dir_set
       THEN scanPc' = "failed" /\ files' = files
       ELSE IF input_empty
       THEN scanPc' = "workers" /\ files' = files
       ELSE /\ files' = scan_crate_for_route_files_with_rules(tree, scan_rules')
            /\ scanPc' = IF files' = <<>> THEN "collected" ELSE "process"
    /\ UNCHANGED <<input_empty, manifest_dir_set, tree, processed, fileIdx,
                   scan_result, stderr, functions, genPc>>

\* handle_file on one entry, by a worker of the parallel iterator; a
\* member project is scanned when scan_project of the projects before it
\* has returned
HandleFile(i) ==
    /\ scanPc = "workers"
    /\ processed[i].state = "waiting"
    /\ \A j \in 1..(i - 1) :
          tree[j].path.dirs[1] # tree[i].path.dirs[1] => processed[j].state = "done"
    /\ LET out == process_file(tree[i], crate_root(tree[i])) IN
          /\ processed' = [processed EXCEPT ![i] = [state |-> "done", out |-> out]]
          /\ stderr' = stderr \o ReadReport(tree[i], out)
    /\ UNCHANGED <<input_empty, manifest_dir_set, tree, scanPc, files, fileIdx,
                   scan_result, scan_rules, functions, genPc>>

\* the workers are joined and their results collected
CollectResults ==
    /\ scanPc = "workers"
    /\ \A i \in DOMAIN tree : processed[i].state = "done"
    /\ scan_result' = local_results(processed, 1)
    /\ scanPc' = "collected"
    /\ UNCHANGED <<input_empty, manifest_dir_set, tree, processed, files, fileIdx,
                   stderr, scan_rules, functions, genPc>>

\* one iteration of `for file in files`
ProcessNextFile ==
    /\ scanPc = "process"
    /\ fileIdx <= Len(files)
    /\ LET i == files[fileIdx]
           out == process_file(tree[i], base_module(tree[i]))
       IN  /\ processed' = [processed EXCEPT ![i] = [state |-> "done", out |-> out]]
           /\ scan_result' = scan_result \o out.result
           /\ stderr' = stderr \o ReadReport(tree[i], out)
                  \o (IF out.ok THEN <<>>
                      ELSE <<[path |-> tree[i].path, msg |-> "Failed to process file"]>>)
    /\ fileIdx' = fileIdx + 1
    /\ scanPc' = IF fileIdx = Len(files) THEN "collected" ELSE "process"
    /\ UNCHANGED <<input_empty, manifest_dir_set, tree, files, scan_rules,
                   functions, genPc>>

\* `functions` is bound and handed to group_functions_by_module
ScanDone ==
    /\ scanPc = "collected"
    /\ functions' = scan_result
    /\ genPc' = "group"
    /\ scanPc' = "generate"
    /\ UNCHANGED <<input_empty, manifest_dir_set, tree, processed, files, fileIdx,
                   scan_result, stderr, scan_rules>>

NextScan ==
    \/ /\ \/ ScanStart
          \/ \E i \in DOMAIN tree : HandleFile(i)
          \/ CollectResults
          \/ ProcessNextFile
          \/ ScanDone
       /\ UNCHANGED <<cfgVars, exVars, patterns, entry, rulesPc, included, skipped,
                      grouped, pending, gen_configure_fns, gen_configure_calls,
                      gen_routes, expanded, run, firstExpanded>>
    \/ /\ \/ GroupFunctions
          \/ \E module_path \in pending : EmitModule(module_path)
          \/ BuildConfigure
       /\ UNCHANGED nonGenVars

SpecScan == InitScan /\ [][NextScan]_vars

(***************************************************************************)
(* The generated configure() entry point                                   *)
(***************************************************************************)
Callers == 1..nCallers

\* the route table of the demo crate, as emitted into the log statements
DemoRoutes == << <<"GET", <<"/", "handler", "/", "nation", "/", "hello">> >>,
                 <<"POST", <<"/", "handler", "/", "nation", "/", "echo">> >>,
                 <<"PUT", <<"/", "handler", "/", "mod">> >> >>

DemoCalls == << <<"configure_", "handler", "_", "nation">>,
                <<"configure_", "handler">> >>

\* a load that never stores: every caller sees the initial value
compare_exchange_load_only(current, expected, new) ==
    [ok |-> current = expected, val |-> current]

\* AtomicBool::compare_exchange(expected, new, SeqCst, SeqCst): one atomic step
compare_exchange(current, expected, new) ==
    IF current = expected THEN [ok |-> TRUE, val |-> new]
                          ELSE [ok |-> FALSE, val |-> current]

InitConfigure ==
    /\ INITIALIZED = FALSE
    /\ nCallers \in 1..MaxCallers
    /\ pc = [c \in 1..MaxCallers |-> "idle"]
    /\ observed = [c \in 1..MaxCallers |-> "none"]
    /\ logIdx = [c \in 1..MaxCallers |-> 1]
    /\ logged = <<>>
    /\ mounted = [c \in 1..MaxCallers |-> 0]
    /\ \E n \in 1..MaxRoutes : all_routes = SubSeq(DemoRoutes, 1, n)
    /\ all_configure_calls = DemoCalls
    /\ ExtractIdle
    /\ GenerateIdle
    /\ RulesIdle
    /\ ScanIdle

\* a worker's App factory calls configure(cfg)
Call(c) ==
    /\ pc[c] = "idle"
    /\ pc' = [pc EXCEPT ![c] = "cas"]
    /\ UNCHANGED <<INITIALIZED, nCallers, observed, logIdx, logged, mounted,
                   all_routes, all_configure_calls>>

\* if INITIALIZED.compare_exchange(false, true, SeqCst, SeqCst).is_ok()
CompareExchange(c) ==
    /\ pc[c] = "cas"
    /\ LET r == compare_exchange(INITIALIZED, FALSE, TRUE) IN
        /\ INITIALIZED' = r.val
        /\ observed' = [observed EXCEPT ![c] =
                            IF r.ok THEN "not_yet_logged" ELSE "already_logged"]
        /\ pc' = [pc EXCEPT ![c] = IF r.ok THEN "log" ELSE "mount"]
    /\ UNCHANGED <<nCallers, logIdx, logged, mounted, all_routes,
                   all_configure_calls>>

\* one log::info!("Registered route: {} {}", method, path) statement
LogRoute(c) ==
    /\ pc[c] = "log"
    /\ logIdx[c] <= Len(all_routes)
    /\ logged' = Append(logged, logIdx[c])
    /\ logIdx' = [logIdx EXCEPT ![c] = @ + 1]
    /\ UNCHANGED <<INITIALIZED, nCallers, pc, observed, mounted, all_routes,
                   all_configure_calls>>

\* the end of the guarded block
EndLog(c) ==
    /\ pc[c] = "log"
    /\ logIdx[c] > Len(all_routes)
    /\ pc' = [pc EXCEPT ![c] = "mount"]
    /\ UNCHANGED <<INITIALIZED, nCallers, observed, logIdx, logged, mounted,
                   all_routes, all_configure_calls>>

\* #( cfg.configure(#all_configure_calls); )*  -- unconditional
Mount(c) ==
    /\ pc[c] = "mount"
    /\ mounted' = [mounted EXCEPT ![c] = Len(all_configure_calls)]
    /\ pc' = [pc EXCEPT ![c] = "done"]
    /\ UNCHANGED <<INITIALIZED, nCallers, observed, logIdx, logged, all_routes,
                   all_configure_calls>>

NextConfigure ==
    /\ \E c \in Callers :
           \/ Call(c)
           \/ CompareExchange(c)
           \/ LogRoute(c)
           \/ EndLog(c)
           \/ Mount(c)
    /\ UNCHANGED nonCfgVars

SpecConfigure == InitConfigure /\ [][NextConfigure]_vars

Winners == {c \in Callers : observed[c] = "not_yet_logged"}

Losers == {c \in Callers : observed[c] = "already_logged"}

AllReturned == \A c \in Callers : pc[c] = "done"

\* C1: for any number of concurrent callers of configure(), in any
\* interleaving, at most one caller ever observes "not yet logged"; as soon
\* as any caller has executed the compare-exchange exactly one has, every
\* other such caller observes "already logged"; no route is ever logged
\* twice, and when all calls have returned each route was logged exactly
\* once and every caller has invoked every mount unit.
C1_OneShotLogging ==
    /\ Cardinality(Winners) <= 1
    /\ (\E c \in Callers : observed[c] # "none") => Cardinality(Winners) = 1
    /\ \A c \in Callers : observed[c] # "none" /\ c \notin Winners => c \in Losers
    /\ \A i \in 1..Len(all_routes) : Count(logged, i) <= 1
    /\ AllReturned =>
          /\ Cardinality(Losers) = nCallers - 1
          /\ \A i \in 1..Len(all_routes) : Count(logged, i) = 1
          /\ Len(logged) = Len(all_routes)
          /\ \A c \in Callers : mounted[c] = Len(all_configure_calls)

\* five concurrent callers have all returned over a table of two routes
C1_Witness ==
    /\ nCallers = 5
    /\ AllReturned
    /\ Len(all_routes) = 2
    /\ Len(logged) = 2

(***************************************************************************)
(* Claims about the extractor                                              *)
(***************************************************************************)
\* the module path of a declaration: its "::"-separated prefix, segment by segment
ModulePathOf(f) == NonEmpty(Split(f.module_prefix, "::"))

\* the last n segments of a module path
LastSegments(path, n) ==
    IF Len(path) <= n THEN path ELSE SubSeq(path, Len(path) - n + 1, Len(path))

\* the file is handler/agency.rs and its first module item, named m, holds g
AgencyFileWithModule(m) ==
    /\ exFile.path = AgencyRs
    /\ \E i \in DOMAIN exFile.items :
           /\ exFile.items[i].kind = "mod"
           /\ exFile.items[i].name = m
           /\ exFile.items[i].items = <<FnItem(<<"g">>, GetX)>>

\* C4: in file handler/agency.rs a handler declared in a nested module
\* `agency` has a module path ending in exactly handler, agency, agency (the
\* segment twice, not more), and in a nested module `agency_api` one ending in
\* handler, agency, agency_api.
C4_ModuleDoubling ==
    exDone =>
        \A i \in DOMAIN exOut.result :
            LET f == exOut.result[i] IN
                /\ (AgencyFileWithModule(<<"agency">>) /\ f.name = <<"g">>) =>
                       /\ LastSegments(ModulePathOf(f), 3) =
                              <<<<"handler">>, <<"agency">>, <<"agency">>>>
                       /\ Count(ModulePathOf(f), <<"agency">>) = 2
                /\ (AgencyFileWithModule(<<"agency", "_", "api">>) /\ f.name = <<"g">>) =>
                       LastSegments(ModulePathOf(f), 3) =
                           <<<<"handler">>, <<"agency">>, <<"agency", "_", "api">>>>

\* the attributes of the function that name one of the nine methods, bare or
\* under the actix_web prefix
RecognizedMarkers(attrs) ==
    SelectSeq(attrs, LAMBDA a :
        \/ Len(a.path) = 1 /\ a.path[1] \in Methods
        \/ Len(a.path) = 2 /\ a.path[1] = "actix_web" /\ a.path[2] \in Methods)

MarkerName(a) == a.path[Len(a.path)]

\* the file holds the single function `hello`
SingleFunctionFile ==
    /\ exFile.readable /\ exFile.syntax_ok /\ exFile.size <= MAX_FILE_SIZE
    /\ Len(exFile.items) = 1
    /\ exFile.items[1].kind = "fn"

\* C10: a function with one recognized marker (bare or actix_web-qualified)
\* that has a string-literal argument yields one declaration with that
\* method and path; a function with no recognized marker, or none with a
\* literal argument, yields no declaration, and process_file reports no error.
C10_MarkerRecognition ==
    (exDone /\ SingleFunctionFile) =>
        LET markers == RecognizedMarkers(exFile.items[1].attrs) IN
            /\ exOut.ok
            /\ (Len(markers) = 1 /\ markers[1].lit) =>
                   /\ Len(exOut.result) = 1
                   /\ exOut.result[1].method = MarkerName(markers[1])
                   /\ exOut.result[1].route_path = markers[1].value
                   /\ exOut.result[1].name = exFile.items[1].name
            /\ (\A i \in DOMAIN markers : ~markers[i].lit) => exOut.result = <<>>

\* C14: a function that carries several recognized markers yields exactly
\* one declaration, with the method and path of the last recognized marker
\* of its list; when that last marker has no string-literal argument, an
\* earlier marker does not decide in its place.
C14_LastMarkerWins ==
    (exDone /\ SingleFunctionFile) =>
        LET markers == RecognizedMarkers(exFile.items[1].attrs) IN
            Len(markers) >= 2 =>
                LET last == markers[Len(markers)] IN
                    /\ Len(exOut.result) <= 1
                    /\ last.lit =>
                           /\ Len(exOut.result) = 1
                           /\ exOut.result[1].method = MarkerName(last)
                           /\ exOut.result[1].route_path = last.value
                    /\ ~last.lit =>
                           \/ exOut.result = <<>>
                           \/ exOut.result[1].method = MarkerName(last)

\* the module stack process_file starts the walk of the file with
FileStack == build_current_module(exBase, exFile.path)

\* the stack inside a module named m entered from stack
StackInside(stack, m) ==
    (IF exFile.path.stem = m THEN Append(stack, exFile.path.stem) ELSE stack) \o <<m>>

\* the declarations of the result named n
Named(n) == {i \in DOMAIN exOut.result : exOut.result[i].name = n}

\* C16: after a nested module item has been processed (with or without the
\* doubled push, nested or not, with or without inline content) the module
\* stack is what it was before the item: the stack at the end of the file is
\* the stack at its start, a handler `f` declared after a module at the top
\* of the file gets the file's module path, and a handler `h` declared after
\* a module inside module m gets the path of m.
C16_StackRestored ==
    (exDone /\ exOut.ok) =>
        /\ exOut.current_module = FileStack
        /\ \A i \in Named(<<"f">>) :
              exOut.result[i].module_prefix = build_module_prefix(FileStack)
        /\ \A i \in Named(<<"h">>) :
              exOut.result[i].module_prefix =
                  build_module_prefix(StackInside(FileStack, exFile.items[1].name))

\* handler/agency.rs with `mod agency { mod agency { k } h } f` has been
\* walked: both modules took the doubled push, and h and f follow a module
C16_Witness ==
    /\ exDone
    /\ exFile.path = AgencyRs
    /\ Len(exFile.items) = 2
    /\ exFile.items[1].kind = "mod"
    /\ exFile.items[1].name = <<"agency">>
    /\ Len(exFile.items[1].items) = 2
    /\ exFile.items[1].items[1].name = <<"agency">>
    /\ Named(<<"k">>) # {} /\ Named(<<"h">>) # {} /\ Named(<<"f">>) # {}
    /\ exOut.current_module = FileStack

TenMB == 10 * 1024 * 1024

\* C7: a file whose size exceeds the 10 MB ceiling is never read or handed
\* to the parser and contributes no declarations: process_file returns the
\* "File size exceeds limit" error.  A file of exactly 10 MB or less is not
\* rejected by the size check.
C7_OversizedFile ==
    exDone =>
        /\ exFile.size > TenMB =>
               /\ ~exOut.read
               /\ ~exOut.parsed
               /\ exOut.result = <<>>
               /\ ~exOut.ok
               /\ exOut.err = "File size exceeds limit"
        /\ exFile.size <= TenMB =>
               /\ exOut.err # "File size exceeds limit"
               /\ exFile.readable => exOut.read
               /\ (exFile.readable /\ exFile.syntax_ok) => (exOut.ok /\ exOut.parsed)

\* an 11 MB file that holds a handler and would read and parse has been
\* rejected
C7_Witness ==
    /\ exDone
    /\ exFile.size = 11 * 1024 * 1024
    /\ exFile.readable
    /\ exFile.syntax_ok
    /\ extract_route_info(exFile.items[1]).some
    /\ exOut.err = "File size exceeds limit"
    /\ exOut.result = <<>>

(***************************************************************************)
(* Claims about grouping and emission                                      *)
(***************************************************************************)
Grouped == genPc \in {"emit", "done", "panicked"}

\* the groups that hold declaration f
GroupsOf(f) == {k \in DOMAIN grouped : f \in Range(grouped[k])}

\* the mount units emitted so far
MountUnits == {i \in DOMAIN gen_configure_fns : gen_configure_fns[i].kind = "configure"}

\* the mount units emitted so far that declare scope
MountUnitsAt(scope) == {i \in MountUnits : gen_configure_fns[i].scope = scope}

\* C2: two generation runs over the same declarations return the same text.
C2_Determinism ==
    (run = 2 /\ genPc = "done") => expanded = firstExpanded

\* C3: once the declarations are grouped, every declaration is in exactly
\* one group, two declarations share a group iff their module-path sequences
\* are equal segment by segment, every group holds only declarations of its
\* own path, and the mount units emitted are exactly one per group the
\* emission loop has visited, the unit of a group declaring the scope "/"
\* followed by the path joined by "/"; when the text is returned every group
\* has been visited.
C3_GroupingPartition ==
    Grouped =>
        /\ \A i \in DOMAIN functions : Cardinality(GroupsOf(functions[i])) = 1
        /\ \A k \in DOMAIN grouped :
              /\ grouped[k] # <<>>
              /\ \A j \in DOMAIN grouped[k] :
                    /\ grouped[k][j] \in Range(functions)
                    /\ ModulePathOf(grouped[k][j]) = k
                    /\ Count(grouped[k], grouped[k][j]) =
                           Count(functions, grouped[k][j])
        /\ \A i, j \in DOMAIN functions :
              (GroupsOf(functions[i]) = GroupsOf(functions[j]))
                  <=> (ModulePathOf(functions[i]) = ModulePathOf(functions[j]))
        /\ \A k \in DOMAIN grouped \ pending :
              Cardinality(MountUnitsAt(<<"/">> \o Join(k, <<"/">>))) = 1
        /\ Cardinality(MountUnits) = Cardinality(DOMAIN grouped \ pending)
        /\ genPc = "done" =>
              /\ pending = {}
              /\ Len(expanded.configure_calls) = Cardinality(DOMAIN grouped)

\* declarations of handler::agency and handler::nation were grouped into
\* exactly two groups and the text was returned
C3_Witness ==
    /\ genPc = "done"
    /\ DOMAIN grouped = {<<<<"handler">>, <<"agency">>>>,
                         <<<<"handler">>, <<"nation">>>>}
    /\ Len(functions) = 3

\* the statement that wires declaration f in the text returned
WiredAs(f, segments) ==
    \E i \in DOMAIN expanded.units :
        /\ expanded.units[i].kind = "register"
        /\ \E j \in DOMAIN expanded.units[i].services :
              /\ expanded.units[i].services[j].ident = f.name
              /\ expanded.units[i].services[j].segments = segments

\* C6: when generation has ended, every declaration is wired by a
\* registration statement in which each reserved-word segment of its module
\* path appears as r#segment and every other segment unchanged.
C6_KeywordEscaping ==
    genPc \in {"done", "panicked"} =>
        \A i \in DOMAIN functions :
            LET path == Split(functions[i].module_prefix, "::") IN
                (\E j \in DOMAIN path : path[j] \in RustKeywords) =>
                    WiredAs(functions[i],
                            [j \in DOMAIN path |->
                                IF path[j] \in RustKeywords
                                THEN <<"r#">> \o path[j] ELSE path[j]])

(***************************************************************************)
(* Claims about the scan rules                                             *)
(***************************************************************************)
SrcRsPattern == <<"src", "/", "**", "/", "*", ".", "rs">>
NotGeneratedPattern == <<"!", "src", "/", "generated", "/", "**">>
NationEntry == Entry(<<<<"src">>, <<"handler">>>>, <<"nation">>, "rs", TRUE)
GeneratedXEntry == Entry(<<<<"src">>, <<"generated">>>>, <<"x">>, "rs", TRUE)

\* the patterns the matcher is built from: the given ones and the built-in
\* exclusion
MatcherPatterns == patterns \o default_exclude_patterns

MatchesSomeInclude(path) ==
    \E i \in DOMAIN MatcherPatterns :
        /\ ~starts_with_bang(MatcherPatterns[i])
        /\ GlobMatches(Glob(MatcherPatterns[i]), path)

MatchesSomeExclude(path) ==
    \E i \in DOMAIN MatcherPatterns :
        /\ starts_with_bang(MatcherPatterns[i])
        /\ GlobMatches(Glob(Tail(MatcherPatterns[i])), path)

\* C5: for every pattern list and every relative path, should_include(path)
\* is true exactly when the path matches at least one include pattern (one
\* without the leading '!') and matches no exclude pattern (one with the
\* leading '!', the marker stripped; the built-in exclusion is one of them).
\* In particular ["src/**/*.rs", "!src/generated/**"] includes
\* src/handler/nation.rs and excludes src/generated/x.rs.
C5_ShouldInclude ==
    rulesPc = "done" =>
        /\ included <=> (/\ MatchesSomeInclude(rel_path(entry))
                         /\ ~MatchesSomeExclude(rel_path(entry)))
        /\ (patterns = <<SrcRsPattern, NotGeneratedPattern>> /\ entry = NationEntry)
               => included
        /\ (patterns = <<SrcRsPattern, NotGeneratedPattern>> /\ entry = GeneratedXEntry)
               => ~included

\* the matcher has excluded src/generated/x.rs, which an include pattern matches
C5_Witness ==
    /\ rulesPc = "done"
    /\ patterns = <<SrcRsPattern, NotGeneratedPattern>>
    /\ entry = GeneratedXEntry
    /\ MatchesSomeInclude(rel_path(entry))
    /\ ~included

(***************************************************************************)
(* Claims about the scan                                                   *)
(***************************************************************************)
\* process_file has run on tree[i] and the parser has rejected its content
ParseFailed(i) ==
    /\ processed[i].state = "done"
    /\ processed[i].out.err = "Failed to parse file content"

\* a line about the file has been written to stderr
Reported(file) == \E k \in DOMAIN stderr : stderr[k].path = file.path

\* the handlers the source text of the file declares
HandlerNames(file) ==
    {file.items[j].name : j \in {k \in DOMAIN file.items :
                                    /\ file.items[k].kind = "fn"
                                    /\ extract_route_info(file.items[k]).some}}

\* the returned text registers a handler of that name
Wired(name) ==
    \E i \in DOMAIN expanded.units :
        /\ expanded.units[i].kind = "register"
        /\ \E j \in DOMAIN expanded.units[i].services :
              expanded.units[i].services[j].ident = name

\* C8: a parse error on a file that is not an entry file does not abort
\* generation: when the text is returned the failure has been reported, no
\* declaration of that file is in the text, and the declarations of every
\* file that was processed successfully are.  In both scanning modes.
C8_ParseErrorSkipped ==
    genPc = "done" =>
        \A i \in DOMAIN tree :
            (ParseFailed(i) /\ ~is_entry_file(tree[i])) =>
                /\ Reported(tree[i])
                /\ \A n \in HandlerNames(tree[i]) : ~Wired(n)
                /\ \A j \in DOMAIN tree :
                      (processed[j].state = "done" /\ processed[j].out.ok) =>
                          \A k \in DOMAIN processed[j].out.result :
                              Wired(processed[j].out.result[k].name)

\* C9: a parse error on the entry file (main.rs / lib.rs) of a scanned
\* project is fatal: no generated text is returned.
C9_EntryParseErrorFatal ==
    \A i \in DOMAIN tree :
        (ParseFailed(i) /\ is_entry_file(tree[i])) => genPc # "done"

\* the bootstrap entry file main.rs
is_main_rs(file) == file.path.stem = <<"main">> /\ file.path.ext = "rs"

\* a file under route_codegen/src/, the generator's own implementation
under_generator(file) ==
    /\ Len(file.path.dirs) >= 2
    /\ file.path.dirs[1] = <<"route", "_", "codegen">>
    /\ file.path.dirs[2] = <<"src">>

\* C11: for every pattern list, the empty one included, no file under the
\* generator's own path and no main.rs is ever processed for declarations,
\* and no handler declared in such a file is in the generated text.
C11_BuiltInExclusions ==
    \A i \in DOMAIN tree :
        (is_main_rs(tree[i]) \/ under_generator(tree[i])) =>
            /\ processed[i].state = "waiting"
            /\ genPc = "done" => \A n \in HandlerNames(tree[i]) : ~Wired(n)

\* what the scan of tree[i] alone yields
DeclarationsOf(i) ==
    LET out == process_file(tree[i], crate_root(tree[i])) IN
        IF out.ok THEN out.result ELSE <<>>

\* C12: whatever the interleaving of the workers that handle the entries
\* (files and the files of subdirectories), the collection the scan returns
\* holds exactly the declarations of every scanned file, each exactly once:
\* nothing is lost, duplicated or overwritten.
C12_ParallelMerge ==
    (input_empty /\ scanPc \in {"collected", "generate"}) =>
        /\ \A i \in DOMAIN tree : \A k \in DOMAIN DeclarationsOf(i) :
              Count(scan_result, DeclarationsOf(i)[k]) = 1
        /\ \A k \in DOMAIN scan_result :
              \E i \in DOMAIN tree : scan_result[k] \in Range(DeclarationsOf(i))

\* the workers have returned declarations from the entry file, from both
\* files of the subdirectory and from a member project, and the scan has
\* collected them
C12_Witness ==
    /\ input_empty
    /\ scanPc = "collected"
    /\ \A i \in 1..4 : DeclarationsOf(i) # <<>>
    /\ Len(scan_result) >= 4

(***************************************************************************)
(* Claims about the order of the generated text                            *)
(***************************************************************************)
\* the declaration names of the model, in ascending order
SortedNames == <<<<"echo">>, <<"health">>, <<"hello">>, <<"internal">>, <<"lib">>>>

\* the scopes of the module paths of the model, in ascending module-path
\* order: [], [a, b], [a_b], [agency, handler], [api_tool], [handler, agency],
\* [handler, nation], [route_codegen], [type]
SortedScopes ==
    <<<<"/">>,
      <<"/", "a", "/", "b">>,
      <<"/", "a", "_", "b">>,
      <<"/", "agency", "/", "handler">>,
      <<"/", "api", "_", "tool">>,
      <<"/", "handler", "/", "agency">>,
      <<"/", "handler", "/", "nation">>,
      <<"/", "route", "_", "codegen">>,
      <<"/", "type">>>>

RankIn(sorted, x) == CHOOSE i \in DOMAIN sorted : sorted[i] = x

\* the elements of s, through rank, never decrease
Ascending(s, sorted) ==
    \A i, j \in DOMAIN s : i < j => RankIn(sorted, s[i]) <= RankIn(sorted, s[j])

\* the scopes of the mount units of the returned text, in text order
EmittedScopes ==
    LET mounts == SelectSeq(expanded.units, LAMBDA u : u.kind = "configure")
    IN  [i \in DOMAIN mounts |-> mounts[i].scope]

\* C13: in the returned text the declarations are ordered by (module path,
\* declaration name): the registration statements of every group are in
\* ascending declaration-name order and the groups are in module-path order,
\* whatever the order in which the scan delivered the declarations.
C13_OrderRestored ==
    genPc = "done" =>
        /\ \A i \in DOMAIN expanded.units :
              expanded.units[i].kind = "register" =>
                  Ascending([j \in DOMAIN expanded.units[i].services |->
                                expanded.units[i].services[j].ident], SortedNames)
        /\ Ascending(EmittedScopes, SortedScopes)

(***************************************************************************)
(* Claims about the emitted units                                          *)
(***************************************************************************)
\* the scope the claim gives to a module path
ScopeName(module_path) ==
    IF module_path = <<>> THEN <<"/">> ELSE <<"/">> \o Join(module_path, <<"/">>)

\* the returned text mounts the group of module_path at its scope, through a
\* registration unit that wires every declaration of the group
MountedWithHandlers(module_path) ==
    \E i, j \in DOMAIN expanded.units :
        /\ expanded.units[i].kind = "configure"
        /\ expanded.units[i].scope = ScopeName(module_path)
        /\ expanded.units[j].kind = "register"
        /\ expanded.units[j].ident = expanded.units[i].register
        /\ \A f \in Range(grouped[module_path]) :
              \E s \in DOMAIN expanded.units[j].services :
                  expanded.units[j].services[s].ident = f.name

\* C15: for a handler declared directly in the entry file of the root project
\* (empty module path) emission does not fail, and yields a mount unit of
\* scope "/" with a registration unit that wires the handler; for a
\* non-empty path the scope is "/" followed by the segments joined by "/".
C15_EmptyModulePath ==
    /\ genPc = "panicked" =>
           \E k \in pending \ {<<>>} :
               generate_module_configure(k, grouped[k]).panicked
    /\ genPc = "done" => \A k \in DOMAIN grouped : MountedWithHandlers(k)

\* C17: any two distinct module groups get distinct registration-unit and
\* mount-unit identifiers, so the generated text never defines the same
\* procedure twice, also when segments themselves contain '_' ([a_b] and
\* [a, b]).
C17_UniqueIdentifiers ==
    /\ \A k1, k2 \in DOMAIN grouped :
          k1 # k2 => /\ register_ident(k1) # register_ident(k2)
                     /\ configure_ident(k1) # configure_ident(k2)
    /\ \A i, j \in DOMAIN gen_configure_fns :
          i # j => gen_configure_fns[i].ident # gen_configure_fns[j].ident

====
